---- MODULE Spec2Model ----
(***************************************************************************)
(* A model of the IMPERIAL-LSU velocity model library (src/src/ivlsu.c and *)
(* src/src/ivlsu.h): the lifecycle calls ivlsu_init, ivlsu_query and       *)
(* ivlsu_finalize over the library's global state, and the per-point query *)
(* pipeline (projection, rotation, index selection, boundary policy,       *)
(* lattice reads, interpolation, derived properties).                      *)
(*                                                                         *)
(* Numbers.  The C doubles are modelled as exact rationals <<n, d>> with   *)
(* d > 0 and gcd(n, d) = 1.  Coordinates, depths and lattice values are    *)
(* drawn from small integer sets chosen so that every intermediate value   *)
(* is exactly representable.                                               *)
(*                                                                         *)
(* Undefined behaviour (a NULL dereference, a read through a freed or an   *)
(* out-of-buffer pointer, a double free, a stdio call on a NULL FILE) is a *)
(* nondeterministic choice between a crash of the process and the          *)
(* non-crashing outcomes named at each place.                              *)
(***************************************************************************)
EXTENDS Integers, Sequences, FiniteSets, TLC

VARIABLES
    ivlsu_is_initialized,        \* ivlsu.h:114
    ivlsu_configuration,         \* ivlsu.h:120   [ptr, c]
    ivlsu_velocity_model,        \* ivlsu.h:122   [ptr, vp, vp_status, buf]
    ivlsu_geo2utm,               \* ivlsu.c:22    "NULL" or "PJ"
    ivlsu_cos_rotation_angle,    \* ivlsu.h:125
    ivlsu_sin_rotation_angle,    \* ivlsu.h:127
    ivlsu_total_height_m,        \* ivlsu.h:130
    ivlsu_total_width_m,         \* ivlsu.h:132
    file_open,                   \* a FILE opened by the disk fallback (ivlsu.c:593) is still open
    established,                 \* what the last ivlsu_init established before it returned
    call,                        \* the last API call: [op, ret, crashed]
    points,                      \* the batch handed to the last ivlsu_query
    data,                        \* the output buffer of the last ivlsu_query, after the call
    data0,                       \* the same buffer as the caller handed it in
    trace                        \* per point handled by the last ivlsu_query: what the loop did

vars == <<ivlsu_is_initialized, ivlsu_configuration, ivlsu_velocity_model, ivlsu_geo2utm,
          ivlsu_cos_rotation_angle, ivlsu_sin_rotation_angle, ivlsu_total_height_m,
          ivlsu_total_width_m, file_open, established, call, points, data, data0, trace>>

-----------------------------------------------------------------------------
(* Return codes *)

SUCCESS == 0
FAIL == 1
UCVM_CODE_ERROR == 1

(* Bounds of the model *)

MaxPoints == 2

-----------------------------------------------------------------------------
(* Exact rational arithmetic standing for the C double arithmetic *)

Abs(a) == IF a < 0 THEN -a ELSE a

RECURSIVE GCD(_, _)
GCD(a, b) == IF b = 0 THEN a ELSE GCD(b, a % b)

RNorm(n, d) ==
    LET s == IF d < 0 THEN -1 ELSE 1
        g == GCD(Abs(n), Abs(d))
    IN  <<(s * n) \div g, (s * d) \div g>>

R(k) == <<k, 1>>

\* the result of 0.0/0.0, of fmod(x, 0.0) and of every operation on it
NaN == <<0, 0>>
IsNaN(a) == a[2] = 0

RAdd(a, b) ==
    IF IsNaN(a) \/ IsNaN(b) THEN NaN
    ELSE LET g == GCD(a[2], b[2])
         IN  RNorm(a[1] * (b[2] \div g) + b[1] * (a[2] \div g), (a[2] \div g) * b[2])
RNeg(a) == <<-a[1], a[2]>>
RSub(a, b) == RAdd(a, RNeg(b))
RMul(a, b) ==
    IF IsNaN(a) \/ IsNaN(b) THEN NaN
    ELSE LET g1 == GCD(Abs(a[1]), b[2])
             g2 == GCD(Abs(b[1]), a[2])
         IN  RNorm((a[1] \div g1) * (b[1] \div g2), (a[2] \div g2) * (b[2] \div g1))
\* a < b, false when either is NaN
RLess(a, b) == ~IsNaN(a) /\ ~IsNaN(b) /\ a[1] * b[2] < b[1] * a[2]

\* sqrt() of a perfect square
ISqrt(s) == CHOOSE r \in 0..s : r * r = s

\* round(): n/d rounded to the nearest integer, halves away from zero (d # 0)
Round(n, d) ==
    LET s == IF (n < 0) # (d < 0) THEN -1 ELSE 1
    IN  s * ((2 * Abs(n) + Abs(d)) \div (2 * Abs(d)))

\* fmod(): the remainder of a/m with the sign of a, truncated quotient (m # 0)
Fmod(a, m) ==
    LET r == Abs(a) % Abs(m)
    IN  IF a < 0 THEN -r ELSE r

-----------------------------------------------------------------------------
(* Binary floating point, round to nearest (ties to even): <<m, e>> is     *)
(* m * 2^e with 2^(Precision-1) <= |m| < 2^Precision, and <<0, 0>> is zero.*)

\* bits of mantissa the model keeps
Precision == 14

\* 2^0 .. 2^30
Pow2Table ==
    <<1, 2, 4, 8, 16, 32, 64, 128, 256, 512, 1024, 2048, 4096, 8192, 16384, 32768,
      65536, 131072, 262144, 524288, 1048576, 2097152, 4194304, 8388608, 16777216,
      33554432, 67108864, 134217728, 268435456, 536870912, 1073741824>>

Pow2(k) == Pow2Table[k + 1]

\* the number of bits of n >= 0
RECURSIVE BitLen(_)
BitLen(n) ==
    IF n >= 256 THEN 8 + BitLen(n \div 256)
    ELSE IF n >= 16
         THEN (IF n >= 64 THEN (IF n >= 128 THEN 8 ELSE 7) ELSE (IF n >= 32 THEN 6 ELSE 5))
         ELSE IF n >= 4 THEN (IF n >= 8 THEN 4 ELSE 3)
         ELSE IF n >= 2 THEN 2 ELSE n

\* m * 2^e rounded to Precision bits
FRound(m, e) ==
    IF m = 0 THEN <<0, 0>>
    ELSE LET s == IF m < 0 THEN -1 ELSE 1
             a == Abs(m)
             k == BitLen(a) - Precision
         IN  IF k > 0
             THEN LET q  == a \div Pow2(k)
                      r  == a % Pow2(k)
                      up == 2 * r > Pow2(k) \/ (2 * r = Pow2(k) /\ q % 2 = 1)
                      q1 == IF up THEN q + 1 ELSE q
                  IN  IF q1 = Pow2(Precision)
                      THEN <<s * (q1 \div 2), e + k + 1>>
                      ELSE <<s * q1, e + k>>
             ELSE <<s * a * Pow2(-k), e + k>>

FMul(a, b) == FRound(a[1] * b[1], a[2] + b[2])

FNeg(a) == <<-a[1], a[2]>>

\* an operand more than Precision + 1 binary places below the other is absorbed
FAdd(a, b) ==
    IF a[1] = 0 THEN b
    ELSE IF b[1] = 0 THEN a
    ELSE LET hi == IF a[2] >= b[2] THEN a ELSE b
             lo == IF a[2] >= b[2] THEN b ELSE a
             d  == hi[2] - lo[2]
         IN  IF d > Precision + 1 THEN hi
             ELSE FRound(hi[1] * Pow2(d) + lo[1], lo[2])

FSub(a, b) == FAdd(a, FNeg(b))

FLess(a, b) == FSub(a, b)[1] < 0

\* long division: q * 2^e is the quotient of n / d so far, r the remainder,
\* need the number of bits still to come
RECURSIVE Quotient(_, _, _, _, _)
Quotient(q, r, d, e, need) ==
    IF need <= 0 THEN <<q, r, e>>
    ELSE LET bit == (2 * r) \div d
         IN  Quotient(2 * q + bit, (2 * r) % d, d, e - 1,
                      IF q = 0 /\ bit = 0 THEN need ELSE need - 1)

\* the float nearest to the rational x (x is not NaN): Precision + 2 bits of
\* the quotient and one more for what is left over
FromR(x) ==
    IF x[1] = 0 THEN <<0, 0>>
    ELSE LET a  == Abs(x[1])
             ip == a \div x[2]
             qt == Quotient(ip, a % x[2], x[2], 0, Precision + 2 - BitLen(ip))
             m  == 2 * qt[1] + (IF qt[2] = 0 THEN 0 ELSE 1)
         IN  FRound(IF x[1] < 0 THEN -m ELSE m, qt[3] - 1)

\* the rational a float stands for
ToR(a) == IF a[2] >= 0 THEN R(a[1] * Pow2(a[2])) ELSE RNorm(a[1], Pow2(-a[2]))

\* a decimal literal n / d of the source, as the compiler rounds it
Lit(n, d) == FromR(RNorm(n, d))

-----------------------------------------------------------------------------
(* Configuration files and grid data files *)

\* ivlsu_configuration_t right after calloc
ZeroConfig ==
    [utm_zone |-> 0, model_dir |-> "", nx |-> 0, ny |-> 0, nz |-> 0, depth |-> 0,
     top_left_corner_e |-> 0, top_left_corner_n |-> 0,
     top_right_corner_e |-> 0, top_right_corner_n |-> 0,
     bottom_left_corner_e |-> 0, bottom_left_corner_n |-> 0,
     bottom_right_corner_e |-> 0, bottom_right_corner_n |-> 0,
     depth_interval |-> 0, interpolation |-> 0]

\* an axis-aligned 3 x 3 x 3 grid, 10 m horizontal spacing, 1000 m layers
AxisConfig(interp) ==
    [utm_zone |-> 11, model_dir |-> "ivlsu", nx |-> 3, ny |-> 3, nz |-> 3, depth |-> 2000,
     top_left_corner_e |-> 10, top_left_corner_n |-> 30,
     top_right_corner_e |-> 30, top_right_corner_n |-> 30,
     bottom_left_corner_e |-> 10, bottom_left_corner_n |-> 10,
     bottom_right_corner_e |-> 30, bottom_right_corner_n |-> 10,
     depth_interval |-> 1000, interpolation |-> interp]

\* a 3 x 3 x 3 grid whose rectangle is turned: 20 m up the left side, 40 m
\* along the top, interpolation on
RotatedConfig ==
    [utm_zone |-> 11, model_dir |-> "ivlsu", nx |-> 3, ny |-> 3, nz |-> 3, depth |-> 2000,
     top_left_corner_e |-> 0 - 2, top_left_corner_n |-> 26,
     top_right_corner_e |-> 30, top_right_corner_n |-> 50,
     bottom_left_corner_e |-> 10, bottom_left_corner_n |-> 10,
     bottom_right_corner_e |-> 42, bottom_right_corner_n |-> 34,
     depth_interval |-> 1000, interpolation |-> 1]

\* the axis-aligned grid with a single column of nodes, interpolation off
NarrowConfig == [AxisConfig(0) EXCEPT !.nx = 1]

\* the axis-aligned grids, which init is run on in every environment
AxisConfigFiles == {AxisConfig(0), AxisConfig(1)}

ValidConfigFiles == AxisConfigFiles \cup {RotatedConfig, NarrowConfig}

\* files that leave a required key out
IncompleteConfigFiles ==
    {[AxisConfig(1) EXCEPT !.nx = 0], [AxisConfig(0) EXCEPT !.depth_interval = 0]}

\* the config path of an init call: no file there, or a file with these keys
ConfigFiles ==
    {[present |-> FALSE, kv |-> ZeroConfig]}
        \cup {[present |-> TRUE, kv |-> c] : c \in ValidConfigFiles \cup IncompleteConfigFiles}

\* the float stored at flat offset loc of vp.dat
VpDatAt(loc) == 4000 * ((loc + (loc \div 3) + (loc \div 9)) % 3)

\* vp.dat as read into memory for a grid of n floats (element loc + 1 is offset loc)
RECURSIVE VpDat(_)
VpDat(n) == IF n = 0 THEN <<>> ELSE Append(VpDat(n - 1), VpDatAt(n - 1))

\* what an out-of-buffer or freed-memory read of a float may yield when it does
\* not crash: a value that is none of the stored floats stands for them all
GarbageFloats == {12000}

-----------------------------------------------------------------------------
(* ivlsu_init *)

ConfigIncomplete(config) ==
    \/ config.utm_zone = 0 \/ config.nx = 0 \/ config.ny = 0 \/ config.nz = 0
    \/ config.model_dir = ""
    \/ config.top_left_corner_e = 0 \/ config.top_left_corner_n = 0
    \/ config.top_right_corner_e = 0 \/ config.top_right_corner_n = 0
    \/ config.bottom_left_corner_e = 0 \/ config.bottom_left_corner_n = 0
    \/ config.bottom_right_corner_e = 0 \/ config.bottom_right_corner_n = 0
    \/ config.depth = 0 \/ config.depth_interval = 0

\* file: what fopen finds; config: the calloc'ed record the keys are written to
ivlsu_read_configuration(file, config) ==
    IF ~file.present
    THEN [ret |-> FAIL, config |-> config]
    ELSE IF ConfigIncomplete(file.kv)
         THEN [ret |-> FAIL, config |-> file.kv]
         ELSE [ret |-> SUCCESS, config |-> file.kv]

\* have_file: access(vp.dat, R_OK) == 0; malloc_ok: malloc returned non-NULL
ivlsu_try_reading_model(config, have_file, malloc_ok) ==
    IF ~have_file
    THEN [ret |-> FAIL, vp |-> "NULL", vp_status |-> 0, buf |-> <<>>, opened |-> FALSE]
    ELSE IF malloc_ok
         THEN [ret |-> 2, vp |-> "buffer", vp_status |-> 2,
               buf |-> VpDat(config.nx * config.ny * config.nz), opened |-> FALSE]
         ELSE [ret |-> SUCCESS, vp |-> "FILE", vp_status |-> 1, buf |-> <<>>, opened |-> TRUE]

\* the rotation angle's cosine and sine and the two extents, from the corners
Geometry(c) ==
    LET north == c.top_left_corner_n - c.bottom_left_corner_n
        east  == c.top_left_corner_e - c.bottom_left_corner_e
        hyp   == ISqrt(north * north + east * east)
        w_n   == c.top_right_corner_n - c.top_left_corner_n
        w_e   == c.top_right_corner_e - c.top_left_corner_e
    IN  [cos |-> RNorm(Abs(north), hyp),
         sin |-> RNorm(IF north < 0 THEN -east ELSE east, hyp),
         height |-> hyp,
         width |-> ISqrt(w_n * w_n + w_e * w_e)]

ivlsu_init(file, have_file, malloc_ok, proj_ok) ==
    LET rc == ivlsu_read_configuration(file, ZeroConfig)
        rm == ivlsu_try_reading_model(rc.config, have_file, malloc_ok)
        g  == Geometry(rc.config)
        fresh == [ptr |-> "live", vp |-> "NULL", vp_status |-> 0, buf |-> <<>>]
    IN  /\ ~call.crashed
        /\ ivlsu_configuration' = [ptr |-> "live", c |-> rc.config]
        /\ points' = <<>> /\ data' = <<>> /\ data0' = <<>> /\ trace' = <<>>
        /\ IF rc.ret # SUCCESS
           THEN /\ ivlsu_velocity_model' = fresh
                /\ established' = {}
                /\ call' = [op |-> "init", ret |-> FAIL, crashed |-> FALSE]
                /\ UNCHANGED <<ivlsu_is_initialized, ivlsu_geo2utm, ivlsu_cos_rotation_angle,
                               ivlsu_sin_rotation_angle, ivlsu_total_height_m,
                               ivlsu_total_width_m, file_open>>
           ELSE /\ ivlsu_velocity_model' =
                       [ptr |-> "live", vp |-> rm.vp, vp_status |-> rm.vp_status, buf |-> rm.buf]
                /\ file_open' = (file_open \/ rm.opened)
                /\ IF rm.ret = FAIL
                   THEN /\ established' = {"configuration"}
                        /\ call' = [op |-> "init", ret |-> FAIL, crashed |-> FALSE]
                        /\ UNCHANGED <<ivlsu_is_initialized, ivlsu_geo2utm,
                                       ivlsu_cos_rotation_angle, ivlsu_sin_rotation_angle,
                                       ivlsu_total_height_m, ivlsu_total_width_m>>
                   ELSE /\ ivlsu_cos_rotation_angle' = g.cos
                        /\ ivlsu_sin_rotation_angle' = g.sin
                        /\ ivlsu_total_height_m' = g.height
                        /\ ivlsu_total_width_m' = g.width
                        /\ IF ~proj_ok
                           THEN /\ ivlsu_geo2utm' = "NULL"
                                /\ established' = {"configuration", "grid", "geometry"}
                                /\ call' = [op |-> "init", ret |-> UCVM_CODE_ERROR,
                                            crashed |-> FALSE]
                                /\ UNCHANGED ivlsu_is_initialized
                           ELSE /\ ivlsu_geo2utm' = "PJ"
                                /\ established' =
                                       {"configuration", "grid", "geometry", "projection"}
                                /\ ivlsu_is_initialized' = 1
                                /\ call' = [op |-> "init", ret |-> SUCCESS, crashed |-> FALSE]


-----------------------------------------------------------------------------
(* The projection library (proj.h), seen through to_utm *)

\* the transform maps one degree to ProjScale metres on both axes
ProjScale == 5
\* proj reports an error for a latitude beyond the pole
MaxLatitude == 90

proj_errno(lon, lat) == IF Abs(lat) > MaxLatitude THEN 1 ELSE 0

\* The outcomes of to_utm(lon, lat, &point_u, &point_v): on an error *point_u and
\* *point_v keep what they held.  A NULL transformation object (never created,
\* or destroyed) is not a value proj_trans is specified for: an error or a crash.
to_utm(geo2utm, lon, lat, point_u, point_v) ==
    LET failed == [crashed |-> FALSE, ret |-> UCVM_CODE_ERROR, u |-> point_u, v |-> point_v]
    IN  IF geo2utm = "NULL"
        THEN {failed, [failed EXCEPT !.crashed = TRUE]}
        ELSE IF proj_errno(lon, lat) # 0
             THEN {failed}
             ELSE {[crashed |-> FALSE, ret |-> 0,
                    u |-> ProjScale * lon, v |-> ProjScale * lat]}

-----------------------------------------------------------------------------
(* Grid storage accessor *)

Sentinel == R(-1)

\* The outcomes of ivlsu_read_properties(x, y, z, &data): [crashed, vp]; vs and
\* rho are always set to -1 (see SetRead), qp and qs are not written.
ivlsu_read_properties(x, y, z, c, m) ==
    LET location == z * (c.nx * c.ny) + (y * c.nx) + x
        crash == [crashed |-> TRUE, vp |-> Sentinel]
    IN  IF m.vp_status = 2
        THEN IF m.vp = "buffer" /\ location >= 0 /\ location < Len(m.buf)
             THEN {[crashed |-> FALSE, vp |-> R(m.buf[location + 1])]}
             ELSE \* outside the malloc'ed block, or the block was freed
                  {crash} \cup {[crashed |-> FALSE, vp |-> R(g)] : g \in GarbageFloats}
        ELSE IF m.vp_status = 1
             THEN \* fseek and fread on the local fp, which is NULL
                  {crash}
             ELSE {[crashed |-> FALSE, vp |-> Sentinel]}

\* data after a read that yielded vp
SetRead(d, vp) == [d EXCEPT !.vp = vp, !.vs = Sentinel, !.rho = Sentinel]

\* surrounding_points[k]: an uninitialized local; only vp, vs, rho are ever read
Uninit == [vp |-> R(0), vs |-> R(0), rho |-> R(0), qp |-> R(0), qs |-> R(0)]

\* The reads of plan (a sequence of <<x, y, z>>) in order: the set of
\* [crashed, vals, done], vals the vp read by each completed read, done the
\* number of reads issued (a crashing read is issued and not completed).
RECURSIVE ReadAll(_, _, _)
ReadAll(plan, c, m) ==
    IF plan = <<>>
    THEN {[crashed |-> FALSE, vals |-> <<>>, done |-> 0]}
    ELSE LET t == plan[1]
         IN  UNION {
               IF r.crashed
               THEN {[crashed |-> TRUE, vals |-> <<>>, done |-> 1]}
               ELSE {[crashed |-> rest.crashed, vals |-> <<r.vp>> \o rest.vals,
                      done |-> rest.done + 1] : rest \in ReadAll(Tail(plan), c, m)}
               : r \in ivlsu_read_properties(t[1], t[2], t[3], c, m)}

-----------------------------------------------------------------------------
(* Interpolation engine *)

\* the two weights of the linear interpolation taken the other way round
ivlsu_linear_interpolation_Swapped(percent, x0, x1, ret) ==
    [ret EXCEPT
        !.vp  = RAdd(RMul(percent, x0.vp),  RMul(RSub(R(1), percent), x1.vp)),
        !.vs  = RAdd(RMul(percent, x0.vs),  RMul(RSub(R(1), percent), x1.vs)),
        !.rho = RAdd(RMul(percent, x0.rho), RMul(RSub(R(1), percent), x1.rho))]

ivlsu_linear_interpolation(percent, x0, x1, ret) ==
    [ret EXCEPT
        !.vp  = RAdd(RMul(RSub(R(1), percent), x0.vp),  RMul(percent, x1.vp)),
        !.vs  = RAdd(RMul(RSub(R(1), percent), x0.vs),  RMul(percent, x1.vs)),
        !.rho = RAdd(RMul(RSub(R(1), percent), x0.rho), RMul(percent, x1.rho))]

\* temp_array is calloc'ed: all fields zero
ivlsu_bilinear_interpolation(x_percent, y_percent, four_points, ret) ==
    LET t0 == ivlsu_linear_interpolation(x_percent, four_points[1], four_points[2], Uninit)
        t1 == ivlsu_linear_interpolation(x_percent, four_points[3], four_points[4], Uninit)
    IN  ivlsu_linear_interpolation(y_percent, t0, t1, ret)

ivlsu_trilinear_interpolation(x_percent, y_percent, z_percent, eight_points, ret) ==
    LET t0 == ivlsu_bilinear_interpolation(x_percent, y_percent,
                                           SubSeq(eight_points, 1, 4), Uninit)
        t1 == ivlsu_bilinear_interpolation(x_percent, y_percent,
                                           SubSeq(eight_points, 5, 8), Uninit)
    IN  ivlsu_linear_interpolation(z_percent, t0, t1, ret)

-----------------------------------------------------------------------------
(* Derived properties *)

\* v to the k-th power
RECURSIVE RPow(_, _)
RPow(v, k) == IF k = 0 THEN R(1) ELSE RMul(v, RPow(v, k - 1))

\* The decimal literals of ivlsu_calculate_density
DensityScale == Lit(1, 1000)
DensityC1 == Lit(16612, 10000)
DensityC2 == Lit(4721, 10000)
DensityC3 == Lit(671, 10000)
DensityC4 == Lit(43, 10000)
DensityC5 == Lit(106, 1000000)
DensityFloor == Lit(1, 1)
DensityUnit == Lit(1000, 1)

\* retVal before the clamp, for vp in km/s.  The polynomial is evaluated in
\* binary floating point, every product and every sum rounded to nearest; the
\* model keeps Precision bits of mantissa where a double keeps 53.
DensityPolynomial(vp) ==
    LET vp2 == FMul(vp, vp)
        vp3 == FMul(vp2, vp)
        vp4 == FMul(vp3, vp)
        vp5 == FMul(vp4, vp)
        t1 == FMul(vp, DensityC1)
        t2 == FMul(vp2, DensityC2)
        t3 == FMul(vp3, DensityC3)
        t4 == FMul(vp4, DensityC4)
        t5 == FMul(vp5, DensityC5)
    IN  FAdd(FSub(FAdd(FSub(t1, t2), t3), t4), t5)

\* the density without the clamp at 1.0
ivlsu_calculate_density_NoClamp(vp0) ==
    IF IsNaN(vp0) THEN NaN
    ELSE ToR(FMul(DensityPolynomial(FMul(FromR(vp0), DensityScale)), DensityUnit))

ivlsu_calculate_density(vp0) ==
    IF IsNaN(vp0) THEN NaN
    ELSE LET retVal == DensityPolynomial(FMul(FromR(vp0), DensityScale))
         IN  ToR(FMul(IF FLess(retVal, DensityFloor) THEN DensityFloor ELSE retVal,
                      DensityUnit))

\* Exact for vp on the lattice of half km/s.  For the sentinel vp = -1 the
\* terms of degree two and more (below 1e-6 km/s together) are beyond the
\* model's integers and are left out.
ivlsu_calculate_vs(vp0) ==
    LET vp == RMul(vp0, <<1, 1000>>)
        t1 == RMul(vp, <<12344, 10000>>)
        t2 == RMul(RPow(vp, 2), <<7949, 10000>>)
        t3 == RMul(RPow(vp, 3), <<1238, 10000>>)
        t4 == RMul(RPow(vp, 4), <<64, 10000>>)
        retVal == RAdd(RSub(RAdd(RSub(<<7858, 10000>>, t1), t2), t3), t4)
    IN  CASE vp[2] <= 2 -> RMul(retVal, R(1000))
          [] vp0 = Sentinel -> RMul(RSub(<<7858, 10000>>, t1), R(1000))

-----------------------------------------------------------------------------
(* ivlsu_query *)

\* (int) of a double that is infinite or NaN is not defined by the language.
\* What a build does is fixed by its conversion instruction: "indefinite" yields
\* INT_MIN for all of them, "saturating" yields 0 for NaN and the nearest int
\* for an infinity.
CastModes == {"indefinite", "saturating"}

\* sign: 0 for NaN, 1 for +inf, -1 for -inf
CastNonFinite(mode, sign) ==
    IF mode = "indefinite" \/ sign < 0 THEN -2147483647 - 1
    ELSE IF sign = 0 THEN 0 ELSE 2147483647

Sign(a) == IF a < 0 THEN -1 ELSE IF a > 0 THEN 1 ELSE 0

\* (int)round(pt / delta) for delta = d / n1, pt a rational, d and n1 integers
LoadCoord(mode, pt, d, n1) ==
    IF IsNaN(pt) \/ (d = 0 /\ n1 = 0)
    THEN CastNonFinite(mode, 0)                          \* NaN
    ELSE IF d = 0
         THEN \* delta is +0.0 or -0.0: the quotient is NaN or an infinity
              CastNonFinite(mode, Sign(pt[1]) * Sign(n1))
         ELSE IF n1 = 0
              THEN 0                                      \* delta is infinite
              ELSE Round(pt[1] * n1, pt[2] * d)

\* fmod(a, interval) / interval for interval = ext / n1 (n1 > 0)
Percent(a, ext, n1) ==
    IF ext = 0 THEN NaN ELSE RNorm(Fmod(a * n1, ext), ext)

\* the boundary test without its upper bound on the x index
OutsideBoundaries_NoUpperX(c, depth, load_x_coord, load_y_coord, load_z_coord) ==
    \/ depth > c.depth
    \/ load_y_coord > c.ny - 1
    \/ load_x_coord < 0
    \/ load_y_coord < 0
    \/ load_z_coord < 0

\* the boundary test of the loop
OutsideBoundaries(c, depth, load_x_coord, load_y_coord, load_z_coord) ==
    \/ depth > c.depth
    \/ load_x_coord > c.nx - 1
    \/ load_y_coord > c.ny - 1
    \/ load_x_coord < 0
    \/ load_y_coord < 0
    \/ load_z_coord < 0

\* the negative-depth branch writing vp, vs and rho only
NegativeDepthTuple_NoQ(d) ==
    [d EXCEPT !.vp = R(-1), !.vs = R(-1), !.rho = R(-1)]

\* what the negative-depth branch writes
NegativeDepthTuple(d) ==
    [d EXCEPT !.vp = Sentinel, !.vs = Sentinel, !.rho = Sentinel,
              !.qp = Sentinel, !.qs = Sentinel]

\* what the boundary branch writes
OutsideTuple(d) == [d EXCEPT !.vp = Sentinel, !.vs = Sentinel, !.rho = Sentinel]

\* the four lattice points of a plane, in the order they are read
Plane(x, y, z) == << <<x, y, z>>, <<x + 1, y, z>>, <<x, y + 1, z>>, <<x + 1, y + 1, z>> >>

\* the lattice reads of a resolved point when the interpolation flag is not looked at
ReadPlan_AlwaysBlend(c, x, y, z, z_percent) ==
    IF z = 0 /\ z_percent = R(0)
    THEN Plane(x, y, 0)
    ELSE Plane(x, y, z) \o Plane(x, y, z - 1)

\* the lattice reads of a resolved point without the case of the bottom plane
ReadPlan_NoBottomCase(c, x, y, z, z_percent) ==
    IF c.interpolation # 0
    THEN Plane(x, y, z) \o Plane(x, y, z - 1)
    ELSE << <<x, y, z>> >>

\* the lattice reads of a resolved point, in order
ReadPlan(c, x, y, z, z_percent) ==
    IF z = 0 /\ z_percent = R(0)
    THEN IF c.interpolation # 0 THEN Plane(x, y, 0) ELSE << <<x, y, 0>> >>
    ELSE IF c.interpolation # 0
         THEN Plane(x, y, z) \o Plane(x, y, z - 1)
         ELSE << <<x, y, z>> >>

\* data[i] after the reads of the plan have yielded vals
Combine(vals, x_percent, y_percent, z_percent, d) ==
    LET pts == [k \in 1..Len(vals) |-> SetRead(Uninit, vals[k])]
    IN  CASE Len(vals) = 1 -> SetRead(d, vals[1])
          [] Len(vals) = 4 -> ivlsu_bilinear_interpolation(x_percent, y_percent, pts, d)
          [] Len(vals) = 8 ->
                 ivlsu_trilinear_interpolation(x_percent, y_percent, z_percent, pts, d)

\* rho and vs from the resolved vp
Derive(d) ==
    LET rho == ivlsu_calculate_density(d.vp)
    IN  [d EXCEPT !.rho = rho, !.vs = ivlsu_calculate_vs(d.vp)]

NoStep ==
    [path |-> "none", utm_ret |-> 0, load |-> <<0, 0, 0>>,
     percent |-> <<R(0), R(0), R(0)>>, reads |-> <<>>]

\* G: the globals as the call reads them, [c, m, geo2utm, cos, sin, width, height],
\* and the build's conversion [cast].
\* One iteration of the loop for point p, with point_u, point_v as the previous
\* iteration left them and d the slot data[i] as it was: the set of
\* [crashed, u, v, d, step].
QueryPoint(G, point_u, point_v, p, d) ==
    IF p.depth < 0
    THEN {[crashed |-> FALSE, u |-> point_u, v |-> point_v, d |-> NegativeDepthTuple(d),
           step |-> [NoStep EXCEPT !.path = "negative_depth"]]}
    ELSE UNION {
      IF t.crashed
      THEN {[crashed |-> TRUE, u |-> point_u, v |-> point_v, d |-> d,
             step |-> [NoStep EXCEPT !.path = "to_utm", !.utm_ret = t.ret]]}
      ELSE
        LET c  == G.c
            u  == t.u - c.bottom_left_corner_e
            v  == t.v - c.bottom_left_corner_n
            point_x == RSub(RMul(G.cos, R(u)), RMul(G.sin, R(v)))
            point_y == RAdd(RMul(G.sin, R(u)), RMul(G.cos, R(v)))
            z  == p.depth \div 1000
            x_percent == Percent(u, G.width,  IF c.nx > 1 THEN c.nx - 1 ELSE 1)
            y_percent == Percent(v, G.height, IF c.ny > 1 THEN c.ny - 1 ELSE 1)
            z_percent == IF c.depth_interval = 0 THEN NaN
                         ELSE RNorm(Fmod(p.depth, c.depth_interval), c.depth_interval)
            x  == LoadCoord(G.cast, point_x,
                            c.top_right_corner_e - c.bottom_left_corner_e, c.nx - 1)
            y  == LoadCoord(G.cast, point_y,
                            c.top_right_corner_n - c.bottom_left_corner_n, c.ny - 1)
        IN  IF OutsideBoundaries(c, p.depth, x, y, z)
            THEN {[crashed |-> FALSE, u |-> u, v |-> v, d |-> OutsideTuple(d),
                   step |-> [NoStep EXCEPT !.path = "outside", !.utm_ret = t.ret,
                                           !.load = <<x, y, z>>]]}
            ELSE LET plan == ReadPlan(c, x, y, z, z_percent)
                 IN  {[crashed |-> r.crashed, u |-> u, v |-> v,
                       d |-> IF r.crashed THEN d
                             ELSE Derive(Combine(r.vals, x_percent, y_percent,
                                                 z_percent, d)),
                       step |-> [path |-> "resolved", utm_ret |-> t.ret,
                                 load |-> <<x, y, z>>,
                                 percent |-> <<x_percent, y_percent, z_percent>>,
                                 reads |-> SubSeq(plan, 1, r.done)]]
                      : r \in ReadAll(plan, c, G.m)}
      : t \in to_utm(G.geo2utm, p.longitude, p.latitude, point_u, point_v)}

\* the loop leaving the batch (break for continue) at a point outside the boundaries
LoopGoesOn_Break(o) == ~o.crashed /\ o.step.path # "outside"

\* the loop goes on to point i + 1 after the outcome o of point i
LoopGoesOn(o) == ~o.crashed

\* The for loop from point i on: the set of [crashed, data, trace].
RECURSIVE QueryLoop(_, _, _, _, _, _, _)
QueryLoop(G, batch, buf, i, point_u, point_v, tr) ==
    IF i > Len(batch)
    THEN {[crashed |-> FALSE, data |-> buf, trace |-> tr]}
    ELSE UNION {
           IF LoopGoesOn(o)
           THEN QueryLoop(G, batch, [buf EXCEPT ![i] = o.d], i + 1, o.u, o.v,
                          Append(tr, o.step))
           ELSE {[crashed |-> o.crashed, data |-> [buf EXCEPT ![i] = o.d],
                  trace |-> Append(tr, o.step)]}
           : o \in QueryPoint(G, point_u, point_v, batch[i], buf[i])}

Globals(mode) ==
    [cast |-> mode, c |-> ivlsu_configuration.c, m |-> ivlsu_velocity_model, geo2utm |-> ivlsu_geo2utm,
     cos |-> ivlsu_cos_rotation_angle, sin |-> ivlsu_sin_rotation_angle,
     width |-> ivlsu_total_width_m, height |-> ivlsu_total_height_m]

\* The outcomes of ivlsu_query(points, data, numpoints) on the globals G with
\* the configuration pointer in state ptr.
QueryOutcomes(G, ptr, batch, buf) ==
    LET crash == [crashed |-> TRUE, data |-> buf, trace |-> <<>>]
        run   == QueryLoop(G, batch, buf, 1, 0, 0, <<>>)
    IN  CASE ptr = "NULL"  -> {crash}                 \* ivlsu_configuration->utm_zone
          [] ptr = "freed" -> {crash} \cup run        \* a read of freed memory
          [] ptr = "live"  -> run

NoReturn == 0 - 1

\* The conversions of a call differ between builds only where a quotient is
\* not finite, which takes a zero corner difference.
CastModesOf(c) ==
    IF \/ c.top_right_corner_e = c.bottom_left_corner_e
       \/ c.top_right_corner_n = c.bottom_left_corner_n
    THEN CastModes
    ELSE {"indefinite"}

ivlsu_query(batch, buf) ==
    /\ ~call.crashed
    /\ \E mode \in CastModesOf(ivlsu_configuration.c) :
       \E o \in QueryOutcomes(Globals(mode), ivlsu_configuration.ptr, batch, buf) :
          /\ points' = batch
          /\ data0' = buf
          /\ data' = o.data
          /\ trace' = o.trace
          /\ call' = [op |-> "query", ret |-> IF o.crashed THEN NoReturn ELSE SUCCESS,
                      crashed |-> o.crashed]
    /\ UNCHANGED <<ivlsu_is_initialized, ivlsu_configuration, ivlsu_velocity_model,
                   ivlsu_geo2utm, ivlsu_cos_rotation_angle, ivlsu_sin_rotation_angle,
                   ivlsu_total_height_m, ivlsu_total_width_m, file_open, established>>

-----------------------------------------------------------------------------
(* ivlsu_finalize *)

\* The outcomes of ivlsu_finalize() with the model record m and the
\* configuration pointer in state ptr: [crashed, vp, ptr].
FinalizeOutcomes(m, ptr) ==
    LET vp_after == IF m.vp = "NULL" THEN "NULL" ELSE "freed"
        done  == [crashed |-> FALSE, vp |-> vp_after, ptr |-> "freed"]
        crash == [crashed |-> TRUE, vp |-> m.vp, ptr |-> ptr]
        \* free() of a FILE, of a block already freed, of a record already freed
        undefined == m.vp \in {"FILE", "freed"} \/ ptr = "freed"
    IN  IF m.ptr = "NULL"
        THEN {crash}                                  \* ivlsu_velocity_model->vp
        ELSE IF undefined THEN {crash, done} ELSE {done}

ivlsu_finalize ==
    /\ ~call.crashed
    /\ \E o \in FinalizeOutcomes(ivlsu_velocity_model, ivlsu_configuration.ptr) :
          /\ ivlsu_geo2utm' = "NULL"
          /\ ivlsu_velocity_model' = [ivlsu_velocity_model EXCEPT !.vp = o.vp]
          /\ ivlsu_configuration' = [ivlsu_configuration EXCEPT !.ptr = o.ptr]
          /\ call' = [op |-> "finalize", ret |-> IF o.crashed THEN NoReturn ELSE SUCCESS,
                      crashed |-> o.crashed]
    /\ points' = <<>> /\ data' = <<>> /\ data0' = <<>> /\ trace' = <<>>
    /\ UNCHANGED <<ivlsu_is_initialized, ivlsu_cos_rotation_angle, ivlsu_sin_rotation_angle,
                   ivlsu_total_height_m, ivlsu_total_width_m, file_open, established>>

-----------------------------------------------------------------------------
(* The calls the host makes *)

Pt(lon, lat, depth) == [longitude |-> lon, latitude |-> lat, depth |-> depth]

\* Query points.  With the grid of AxisConfig (origin at 10 m, 10 m spacing):
QueryPoints ==
    {Pt(4, 4, 0),        \* on node (1,1) of the bottom plane
     Pt(3, 4, 1500),     \* half-way between nodes in x and in z
     Pt(4, 4, -1),       \* above the surface
     Pt(4, 4, 2500),     \* below the configured depth
     Pt(8, 4, 500),      \* east of the grid
     Pt(0, 4, 0),        \* west of the grid
     Pt(4, 91, 1000),    \* the projection reports an error
     Pt(6, 6, 2000),     \* the last node of the last layer
     Pt(2, 2, 500)}      \* the origin node, between layers

\* the sequences of n query points
RECURSIVE BatchesOf(_)
BatchesOf(n) ==
    IF n = 0 THEN {<<>>} ELSE {Append(b, p) : b \in BatchesOf(n - 1), p \in QueryPoints}

Batches == UNION {BatchesOf(n) : n \in 1..MaxPoints}

\* an output buffer of n slots, each holding fill
RECURSIVE Buffer(_, _)
Buffer(n, fill) == IF n = 0 THEN <<>> ELSE Append(Buffer(n - 1, fill), fill)

\* what the caller's output buffer holds in every slot before the call
Zeroed == [vp |-> R(0), vs |-> R(0), rho |-> R(0), qp |-> R(0), qs |-> R(0)]
Used   == [vp |-> R(4000), vs |-> R(2000), rho |-> R(2000), qp |-> R(50), qs |-> R(25)]
SlotFills == {Zeroed, Used}

-----------------------------------------------------------------------------
Init ==
    /\ ivlsu_is_initialized = 0
    /\ ivlsu_configuration = [ptr |-> "NULL", c |-> ZeroConfig]
    /\ ivlsu_velocity_model = [ptr |-> "NULL", vp |-> "NULL", vp_status |-> 0, buf |-> <<>>]
    /\ ivlsu_geo2utm = "NULL"
    /\ ivlsu_cos_rotation_angle = R(0)
    /\ ivlsu_sin_rotation_angle = R(0)
    /\ ivlsu_total_height_m = 0
    /\ ivlsu_total_width_m = 0
    /\ file_open = FALSE
    /\ established = {}
    /\ call = [op |-> "none", ret |-> SUCCESS, crashed |-> FALSE]
    /\ points = <<>> /\ data = <<>> /\ data0 = <<>> /\ trace = <<>>

\* What an init call finds: the config file, whether vp.dat is readable, whether
\* malloc succeeds, whether the projection can be created.  What init never
\* gets to look at is held fixed.
InitEnvs ==
    {[file |-> f, have_file |-> FALSE, malloc_ok |-> TRUE, proj_ok |-> TRUE] :
        f \in ConfigFiles}
    \cup [file : {f \in ConfigFiles : f.present /\ f.kv \in AxisConfigFiles},
          have_file : {TRUE}, malloc_ok : BOOLEAN, proj_ok : BOOLEAN]
    \cup [file : {f \in ConfigFiles : f.present /\ f.kv \in ValidConfigFiles},
          have_file : {TRUE}, malloc_ok : {TRUE}, proj_ok : {TRUE}]

\* A query leaves the globals alone, and every call overwrites the record of
\* the last call (call, points, data, data0, trace).  So a call that follows a
\* query reaches exactly the state it reaches from the state before the query:
\* the host's next call is taken from there.
HostMayCall == call.op # "query"

Next ==
    \/ /\ HostMayCall
       /\ \E e \in InitEnvs : ivlsu_init(e.file, e.have_file, e.malloc_ok, e.proj_ok)
    \/ /\ HostMayCall
       /\ \E batch \in Batches, fill \in SlotFills :
             ivlsu_query(batch, Buffer(Len(batch), fill))
    \/ /\ HostMayCall
       /\ ivlsu_finalize

Spec == Init /\ [][Next]_vars
-----------------------------------------------------------------------------
(* Vocabulary of the properties *)

Queried == call.op = "query"

\* the last ivlsu_init established everything and nothing was released since
Ready ==
    /\ established = {"configuration", "grid", "geometry", "projection"}
    /\ ivlsu_configuration.ptr = "live"

\* the points the loop of the last query got to
Handled == 1..Len(trace)

\* point i was handled and the loop got past it
Completed(i) == i \in Handled /\ (i < Len(trace) \/ ~call.crashed)

AllSentinel ==
    [vp |-> Sentinel, vs |-> Sentinel, rho |-> Sentinel, qp |-> Sentinel, qs |-> Sentinel]

\* the indices the loop computed for point i miss the grid, or the point is too deep
OutOfBounds(i) ==
    LET c == ivlsu_configuration.c
    IN  \/ trace[i].load[1] < 0 \/ trace[i].load[1] > c.nx - 1
        \/ trace[i].load[2] < 0 \/ trace[i].load[2] > c.ny - 1
        \/ points[i].depth > c.depth

-----------------------------------------------------------------------------
(* C1: every query point with depth < 0 that the loop gets to has vp, vs,  *)
(* rho, qp and qs of its output slot set to -1 and no lattice point read,  *)
(* whatever the state of the model, the interpolation mode, the other      *)
(* points of the batch and the slot's earlier content.                     *)
C1_NegativeDepthSentinel ==
    Queried =>
        \A i \in Handled :
            points[i].depth < 0 =>
                /\ data[i] = AllSentinel
                /\ trace[i].reads = <<>>
                /\ Completed(i)

\* a negative-depth point after a resolved one, in a slot that held other values
C1_Witness ==
    /\ Queried /\ Ready /\ ~call.crashed
    /\ Len(points) = 2
    /\ trace[1].path = "resolved" /\ trace[1].reads # <<>>
    /\ points[2].depth < 0
    /\ data0[2] = Used
    /\ data[2] = AllSentinel

(* C2: every query point with depth >= 0 whose computed x index is outside *)
(* [0, nx-1], or y index outside [0, ny-1], or whose depth exceeds the     *)
(* configured depth has vp, vs and rho of its slot set to -1, with no      *)
(* lattice read and no derivation of rho and vs (which would leave rho at  *)
(* 1000 or more).                                                          *)
C2_OutOfBoundsSentinel ==
    Queried =>
        \A i \in Handled :
            (trace[i].path \in {"outside", "resolved"} /\ OutOfBounds(i)) =>
                /\ trace[i].path = "outside"
                /\ trace[i].reads = <<>>
                /\ data[i].vp = Sentinel /\ data[i].vs = Sentinel /\ data[i].rho = Sentinel
                /\ Completed(i)

\* a point east of the grid, one west of it and one too deep, on a loaded model
C2_Witness ==
    /\ Queried /\ Ready /\ ~call.crashed
    /\ Len(points) = 2
    /\ points[1].depth >= 0 /\ points[2].depth >= 0
    /\ \/ trace[1].load[1] > ivlsu_configuration.c.nx - 1
       \/ trace[1].load[1] < 0
    /\ points[2].depth > ivlsu_configuration.c.depth
    /\ data0[1] = Used
    /\ data[1].vp = Sentinel /\ data[2].rho = Sentinel

(* C3: an out-of-domain point (negative depth, too deep, index out of      *)
(* range) never cuts a batch short: the loop goes on past it, a query that *)
(* returns has handled every point, slot i holding the result of point i   *)
(* (the sentinel for an out-of-domain point, a derived rho for a resolved  *)
(* one), and returns SUCCESS; the slots of points never reached are left   *)
(* as they were.                                                           *)
C3_BatchNotCutShort ==
    Queried =>
        /\ \A i \in Handled :
              trace[i].path \in {"negative_depth", "outside"} =>
                  /\ Completed(i)
                  /\ data[i].vp = Sentinel /\ data[i].rho = Sentinel
        /\ \A i \in Handled :
              (trace[i].path = "resolved" /\ Completed(i)) => data[i].rho # Sentinel
        /\ ~call.crashed =>
              /\ Len(trace) = Len(points)
              /\ Len(data) = Len(points)
              /\ call.ret = SUCCESS
        /\ call.crashed => call.ret = NoReturn
        /\ \A i \in 1..Len(points) : i \notin Handled => data[i] = data0[i]

\* an out-of-domain point first, a resolved point after it
C3_Witness ==
    /\ Queried /\ Ready /\ call.ret = SUCCESS /\ ~call.crashed
    /\ Len(points) = 2
    /\ trace[1].path \in {"negative_depth", "outside"}
    /\ trace[2].path = "resolved"
    /\ data[1].vp = Sentinel
    /\ data[2].vp # Sentinel

(* C4: when to_utm reports an error for a point of the batch, ivlsu_query  *)
(* returns an error instead of SUCCESS.                                    *)
C4_ProjectionErrorPropagates ==
    (Queried /\ Ready /\ ~call.crashed) =>
        ((\E i \in Handled : trace[i].utm_ret # 0) => call.ret # SUCCESS)

(* C5: on a loaded model the vp, vs and rho written for a point depend on  *)
(* that point and the model only: they are what a query of that point      *)
(* alone writes.                                                           *)
C5_PointsIndependent ==
    (Queried /\ Ready /\ ~call.crashed) =>
        \A i \in 1..Len(points) :
            \A mode \in CastModes :
                \A o \in QueryLoop(Globals(mode), <<points[i]>>, <<data0[i]>>, 1, 0, 0, <<>>) :
                    ~o.crashed =>
                        /\ o.data[1].vp = data[i].vp
                        /\ o.data[1].vs = data[i].vs
                        /\ o.data[1].rho = data[i].rho

(* C6: qp and qs are -1 in every output tuple a query has written.         *)
C6_QpQsSentinel ==
    (Queried /\ Ready) =>
        \A i \in Handled :
            Completed(i) => (data[i].qp = Sentinel /\ data[i].qs = Sentinel)

(* C7: after an ivlsu_init that fails (no configuration file, a required   *)
(* field zero, no grid file, no projection) the return value is not        *)
(* SUCCESS and the ready flag is 0; the flag is 1 only after an init that  *)
(* established configuration, grid, geometry and projection.               *)
C7_FailedInitLeavesFlagZero ==
    /\ (call.op = "init" /\ established # {"configuration", "grid", "geometry", "projection"})
           => (call.ret # SUCCESS /\ ivlsu_is_initialized = 0)
    /\ (call.op = "init" /\ call.ret = SUCCESS)
           => (ivlsu_is_initialized = 1
               /\ established = {"configuration", "grid", "geometry", "projection"})

(* C8: a query that is serviced (reads the configuration and returns) was  *)
(* issued on a model that a completed init loaded and no finalize released.*)
C8_ReadyGatesQuery ==
    (Queried /\ ~call.crashed) => Ready

(* C9: after a successful init vp_status is 1 or 2 and, in either          *)
(* representation, ivlsu_read_properties(x, y, z) for in-range indices     *)
(* yields the float stored at offset z*(nx*ny) + y*nx + x of vp.dat.       *)
C9_ReadYieldsStoredFloat ==
    (call.op = "init" /\ call.ret = SUCCESS) =>
        LET c == ivlsu_configuration.c
        IN  /\ ivlsu_velocity_model.vp_status \in {1, 2}
            /\ \A x \in 0..(c.nx - 1), y \in 0..(c.ny - 1), z \in 0..(c.nz - 1) :
                  ivlsu_read_properties(x, y, z, c, ivlsu_velocity_model) =
                      {[crashed |-> FALSE,
                        vp |-> R(VpDatAt(z * (c.nx * c.ny) + y * c.nx + x))]}

(* C10: ivlsu_finalize, called after an init (successful or failed) or a   *)
(* second time, returns SUCCESS and leaves the grid store released (the    *)
(* buffer freed, the backing file closed), the configuration record freed  *)
(* and the projection destroyed.                                           *)
C10_FinalizeReleases ==
    (call.op = "finalize" /\ ivlsu_velocity_model.ptr # "NULL") =>
        /\ ~call.crashed
        /\ call.ret = SUCCESS
        /\ ivlsu_velocity_model.vp \in {"NULL", "freed"}
        /\ ~file_open
        /\ ivlsu_configuration.ptr = "freed"
        /\ ivlsu_geo2utm = "NULL"

-----------------------------------------------------------------------------
(* Vocabulary of the index and interpolation properties *)

\* to_utm succeeded for point i and the loop went on to the index selection
Projected(i) == trace[i].path \in {"outside", "resolved"} /\ trace[i].utm_ret = 0

\* the translated coordinates of a projected point i
TranslatedU(i) == ProjScale * points[i].longitude - ivlsu_configuration.c.bottom_left_corner_e
TranslatedV(i) == ProjScale * points[i].latitude - ivlsu_configuration.c.bottom_left_corner_n

\* the rotated coordinates of a projected point i
GridX(i) ==
    RSub(RMul(ivlsu_cos_rotation_angle, R(TranslatedU(i))),
         RMul(ivlsu_sin_rotation_angle, R(TranslatedV(i))))
GridY(i) ==
    RAdd(RMul(ivlsu_sin_rotation_angle, R(TranslatedU(i))),
         RMul(ivlsu_cos_rotation_angle, R(TranslatedV(i))))

\* the float stored for the lattice point t = <<x, y, z>>
Stored(t) ==
    LET c == ivlsu_configuration.c
    IN  R(VpDatAt(t[3] * (c.nx * c.ny) + t[2] * c.nx + t[1]))

(* C11: with interpolation disabled, a point that passes the depth and     *)
(* boundary checks causes exactly one lattice read, at (xIndex, yIndex,    *)
(* zIndex) with xIndex = round(x / lonSpacing), yIndex = round(y /         *)
(* latSpacing), zIndex = floor(depth / 1000), and the vp written is the    *)
(* float stored there, unblended.  (The spacings are the corner            *)
(* differences over n-1; the index formula is stated where n > 1.)         *)
C11_NearestExact ==
    (Queried /\ Ready /\ ivlsu_configuration.c.interpolation = 0) =>
        \A i \in Handled :
            trace[i].path = "resolved" =>
                LET c == ivlsu_configuration.c
                IN  /\ trace[i].reads = <<trace[i].load>>
                    /\ trace[i].load[3] = points[i].depth \div 1000
                    /\ (Projected(i) /\ c.nx > 1 /\ c.ny > 1) =>
                          /\ trace[i].load[1] =
                                 Round(GridX(i)[1] * (c.nx - 1),
                                       GridX(i)[2] * (c.top_right_corner_e - c.bottom_left_corner_e))
                          /\ trace[i].load[2] =
                                 Round(GridY(i)[1] * (c.ny - 1),
                                       GridY(i)[2] * (c.top_right_corner_n - c.bottom_left_corner_n))
                    /\ Completed(i) => data[i].vp = Stored(trace[i].load)

\* nearest mode: a point between layers whose node value differs from its neighbours'
C11_Witness ==
    /\ Queried /\ Ready /\ ~call.crashed
    /\ ivlsu_configuration.c.interpolation = 0
    /\ \E i \in Handled :
          /\ trace[i].path = "resolved" /\ Projected(i)
          /\ points[i].depth % 1000 # 0
          /\ data[i].vp = Stored(trace[i].load)
          /\ Stored(trace[i].load) # Stored(<<trace[i].load[1] + 1, trace[i].load[2], trace[i].load[3]>>)
          /\ data0[i].vp # data[i].vp

-----------------------------------------------------------------------------
(* The numerical routines called on their own (ivlsu.h declares them       *)
(* extern).  data0 holds the tuples handed to the call, trace the          *)
(* percentages, data the tuples the call wrote.                            *)

\* a tuple whose vp is v
VpTuple(v) == [vp |-> v, vs |-> Sentinel, rho |-> Sentinel, qp |-> Sentinel, qs |-> Sentinel]

\* vp handed to ivlsu_calculate_density, in m/s: below, across and beyond the
\* range of the curve, neighbouring values at its lower end, and NaN
DensityInputs ==
    {R(0 - 8000), R(0 - 1), R(0), R(1), R(500), R(1000), R(12000), NaN}
        \cup {RNorm(k, 8) : k \in 12000..12016}
        \cup {R(500 * k) : k \in 4..16}

\* corner tuples handed to the interpolation routines
CornerTuples ==
    {[vp |-> R(4000), vs |-> R(2000), rho |-> R(2300), qp |-> R(50), qs |-> R(25)],
     [vp |-> R(8000), vs |-> R(4500), rho |-> R(3300), qp |-> R(70), qs |-> R(35)]}

RECURSIVE TuplesOf(_)
TuplesOf(n) ==
    IF n = 0 THEN {<<>>} ELSE {Append(t, c) : t \in TuplesOf(n - 1), c \in CornerTuples}

Percentages == {R(0), RNorm(1, 2), R(1)}

EngineInit ==
    /\ ivlsu_is_initialized = 0
    /\ ivlsu_configuration = [ptr |-> "NULL", c |-> ZeroConfig]
    /\ ivlsu_velocity_model = [ptr |-> "NULL", vp |-> "NULL", vp_status |-> 0, buf |-> <<>>]
    /\ ivlsu_geo2utm = "NULL"
    /\ ivlsu_cos_rotation_angle = R(0)
    /\ ivlsu_sin_rotation_angle = R(0)
    /\ ivlsu_total_height_m = 0
    /\ ivlsu_total_width_m = 0
    /\ file_open = FALSE
    /\ established = {}
    /\ call = [op |-> "none", ret |-> SUCCESS, crashed |-> FALSE]
    /\ points = <<>> /\ data = <<>>
    /\ \/ /\ data0 \in {<<VpTuple(a), VpTuple(b)>> : a \in DensityInputs, b \in DensityInputs}
          /\ trace = <<>>
       \/ /\ data0 \in TuplesOf(2) \cup TuplesOf(4) \cup TuplesOf(8)
          /\ trace \in {<<[NoStep EXCEPT !.percent = <<x, y, z>>]>> :
                           x \in Percentages, y \in Percentages, z \in Percentages}

EngineCall(op, out) ==
    /\ call.op = "none"
    /\ call' = [op |-> op, ret |-> SUCCESS, crashed |-> FALSE]
    /\ data' = out
    /\ UNCHANGED <<ivlsu_is_initialized, ivlsu_configuration, ivlsu_velocity_model,
                   ivlsu_geo2utm, ivlsu_cos_rotation_angle, ivlsu_sin_rotation_angle,
                   ivlsu_total_height_m, ivlsu_total_width_m, file_open, established,
                   points, data0, trace>>

\* rho = ivlsu_calculate_density(vp) for each of the two tuples
CallDensity ==
    /\ trace = <<>> /\ Len(data0) = 2
    /\ EngineCall("calculate_density",
                  <<[data0[1] EXCEPT !.rho = ivlsu_calculate_density(data0[1].vp)],
                    [data0[2] EXCEPT !.rho = ivlsu_calculate_density(data0[2].vp)]>>)

CallLinear ==
    /\ Len(trace) = 1 /\ Len(data0) = 2
    /\ EngineCall("linear_interpolation",
                  <<ivlsu_linear_interpolation(trace[1].percent[1], data0[1], data0[2], Used)>>)

CallBilinear ==
    /\ Len(trace) = 1 /\ Len(data0) = 4
    /\ EngineCall("bilinear_interpolation",
                  <<ivlsu_bilinear_interpolation(trace[1].percent[1], trace[1].percent[2],
                                                 data0, Used)>>)

CallTrilinear ==
    /\ Len(trace) = 1 /\ Len(data0) = 8
    /\ EngineCall("trilinear_interpolation",
                  <<ivlsu_trilinear_interpolation(trace[1].percent[1], trace[1].percent[2],
                                                  trace[1].percent[3], data0, Used)>>)

EngineNext == CallDensity \/ CallLinear \/ CallBilinear \/ CallTrilinear

EngineSpec == EngineInit /\ [][EngineNext]_vars

-----------------------------------------------------------------------------
\* a <= b, neither NaN
RLeq(a, b) == ~IsNaN(a) /\ ~IsNaN(b) /\ ~RLess(b, a)

\* both vp handed to ivlsu_calculate_density lie on the curve, in order
OnCurve ==
    /\ RLeq(R(1500), data0[1].vp)
    /\ RLeq(data0[1].vp, data0[2].vp)
    /\ RLeq(data0[2].vp, R(8000))

\* the rounding error two evaluations of the polynomial can differ by, in
\* g/m^3: 2^21 units in the last place of 1.0
RoundingSlack == RNorm(Pow2(21), Pow2(Precision))

SameVelocities(t, u) == t.vp = u.vp /\ t.vs = u.vs /\ t.rho = u.rho

C13_CornersReproduced ==
    LET pc == trace[1].percent
        Zero(k) == pc[k] = R(0)
        One(k)  == pc[k] = R(1)
    IN  /\ call.op = "linear_interpolation" =>
              /\ Zero(1) => SameVelocities(data[1], data0[1])
              /\ One(1)  => SameVelocities(data[1], data0[2])
        /\ call.op = "bilinear_interpolation" =>
              /\ (Zero(1) /\ Zero(2)) => SameVelocities(data[1], data0[1])
              /\ (One(1) /\ One(2))   => SameVelocities(data[1], data0[4])
              /\ (One(1) /\ Zero(2))  => SameVelocities(data[1], data0[2])
              /\ (Zero(1) /\ One(2))  => SameVelocities(data[1], data0[3])
        /\ call.op = "trilinear_interpolation" =>
              /\ (Zero(1) /\ Zero(2) /\ Zero(3)) => SameVelocities(data[1], data0[1])
              /\ (One(1) /\ One(2) /\ One(3))    => SameVelocities(data[1], data0[8])
              /\ (Zero(1) /\ Zero(2) /\ One(3))  => SameVelocities(data[1], data0[5])
              /\ (One(1) /\ Zero(2) /\ Zero(3))  => SameVelocities(data[1], data0[2])

\* the far corner of a cube whose other corners all hold another tuple
C13_Witness ==
    /\ call.op = "trilinear_interpolation"
    /\ trace[1].percent = <<R(1), R(1), R(1)>>
    /\ \A k \in 1..7 : data0[k] # data0[8]
    /\ SameVelocities(data[1], data0[8])

-----------------------------------------------------------------------------
(* C14: on a loaded model every lattice read of a query has its indices in *)
(* range: 0 <= x <= nx-1, 0 <= y <= ny-1, 0 <= z <= nz-1.                  *)
C14_ReadsInRange ==
    (Queried /\ Ready) =>
        \A i \in Handled :
            \A k \in 1..Len(trace[i].reads) :
                LET t == trace[i].reads[k]
                    c == ivlsu_configuration.c
                IN  /\ 0 <= t[1] /\ t[1] <= c.nx - 1
                    /\ 0 <= t[2] /\ t[2] <= c.ny - 1
                    /\ 0 <= t[3] /\ t[3] <= c.nz - 1

-----------------------------------------------------------------------------
\* point i rests on the bottom plane: z index 0 and a depth that is a whole
\* number of depth intervals
OnBottomPlane(i) ==
    /\ trace[i].load[3] = 0
    /\ points[i].depth % ivlsu_configuration.c.depth_interval = 0

\* the four lattice points around <<x, y>> = t on plane z: origin, +1x, +1y, +1x+1y
FourAround(t, z) ==
    << <<t[1], t[2], z>>, <<t[1] + 1, t[2], z>>, <<t[1], t[2] + 1, z>>,
       <<t[1] + 1, t[2] + 1, z>> >>

\* what an in-memory read of lattice point t yields when it returns
ReadValue(t) ==
    LET c == ivlsu_configuration.c
        location == t[3] * (c.nx * c.ny) + t[2] * c.nx + t[1]
    IN  IF location >= 0 /\ location < Len(ivlsu_velocity_model.buf)
        THEN R(VpDatAt(location))
        ELSE CHOOSE g \in {R(f) : f \in GarbageFloats} : TRUE

Lerp(percent, a, b) == RAdd(RMul(RSub(R(1), percent), a), RMul(percent, b))

\* two steps along x, one along y, over the values of four reads
BilinearOf(pc, r) ==
    Lerp(pc[2], Lerp(pc[1], ReadValue(r[1]), ReadValue(r[2])),
                Lerp(pc[1], ReadValue(r[3]), ReadValue(r[4])))

(* C15: on a loaded model, a resolved point on the bottom plane (z index 0 *)
(* and z percentage 0) causes, with interpolation enabled, exactly four    *)
(* reads, all at z = 0 (origin, +1x, +1y, +1x+1y), combined by Bilinear,   *)
(* and with interpolation disabled one read at (x, y, 0); every other      *)
(* resolved point with interpolation enabled causes eight reads, four at   *)
(* z and then four at z-1, combined by Trilinear.  A call that crashes in  *)
(* a read has issued the reads up to that one.                             *)
C15_BottomPlaneCase ==
    (Queried /\ Ready) =>
        \A i \in Handled :
            trace[i].path = "resolved" =>
                LET c  == ivlsu_configuration.c
                    ld == trace[i].load
                    pc == trace[i].percent
                    rd == trace[i].reads
                    expected ==
                        IF c.interpolation = 0 THEN <<ld>>
                        ELSE IF OnBottomPlane(i) THEN FourAround(ld, 0)
                        ELSE FourAround(ld, ld[3]) \o FourAround(ld, ld[3] - 1)
                IN  /\ Len(rd) >= 1 /\ Len(rd) <= Len(expected)
                    /\ rd = SubSeq(expected, 1, Len(rd))
                    /\ Completed(i) =>
                          /\ rd = expected
                          /\ (c.interpolation # 0 /\ OnBottomPlane(i)) =>
                                data[i].vp = BilinearOf(pc, rd)
                          /\ (c.interpolation # 0 /\ ~OnBottomPlane(i)) =>
                                data[i].vp = Lerp(pc[3], BilinearOf(pc, SubSeq(rd, 1, 4)),
                                                         BilinearOf(pc, SubSeq(rd, 5, 8)))

\* interpolation on: a point on the bottom plane resolved from four reads and
\* a point between layers resolved from eight, with values that differ
C15_Witness ==
    /\ Queried /\ Ready /\ ~call.crashed
    /\ ivlsu_configuration.c.interpolation # 0
    /\ Len(points) = 2
    /\ trace[1].path = "resolved" /\ OnBottomPlane(1) /\ Len(trace[1].reads) = 4
    /\ trace[2].path = "resolved" /\ ~OnBottomPlane(2) /\ Len(trace[2].reads) = 8
    /\ trace[2].load[3] >= 1
    /\ trace[2].percent[1] # R(0) /\ trace[2].percent[3] # R(0)
    /\ data[2].vp # ReadValue(trace[2].reads[1])

-----------------------------------------------------------------------------
\* 0 <= a <= 1
InUnitInterval(a) == RLeq(R(0), a) /\ RLeq(a, R(1))

(* C16: on a loaded model, for every point that is projected and passes    *)
(* the depth and boundary checks, x_percent, y_percent and z_percent lie   *)
(* in [0, 1].  (Stated for grids of more than one node along x and y,      *)
(* where the spacing the indices are taken with is not in question.)       *)
C16_PercentsInUnitInterval ==
    (Queried /\ Ready /\ ivlsu_configuration.c.nx > 1 /\ ivlsu_configuration.c.ny > 1) =>
        \A i \in Handled :
            (trace[i].path = "resolved" /\ Projected(i)) =>
                \A k \in 1..3 : InUnitInterval(trace[i].percent[k])

-----------------------------------------------------------------------------
\* the spacing of n nodes over extent: extent / (n - 1) when n > 1, else the
\* extent, as the pair <<extent, divisor>>
SpacingDivisor(n) == IF n > 1 THEN n - 1 ELSE 1

(* C17: on a loaded model the indices of a projected point are taken with  *)
(* a spacing of extent / (n - 1) when n > 1 and of the full extent         *)
(* otherwise: x index = round(x / spacing), y index = round(y / spacing).  *)
C17_SpacingDefined ==
    (Queried /\ Ready) =>
        \A i \in Handled :
            Projected(i) =>
                LET c == ivlsu_configuration.c
                IN  /\ trace[i].load[1] =
                           Round(GridX(i)[1] * SpacingDivisor(c.nx),
                                 GridX(i)[2] * (c.top_right_corner_e - c.bottom_left_corner_e))
                    /\ trace[i].load[2] =
                           Round(GridY(i)[1] * SpacingDivisor(c.ny),
                                 GridY(i)[2] * (c.top_right_corner_n - c.bottom_left_corner_n))

====
